---- MODULE Spec2Model ----
\* The DHCP client state module (client/src/state.rs): the lease state record,
\* State::transcend and the helpers it calls, as a state machine.
EXTENDS Integers, Sequences, FiniteSets, TLC

\* ------------------------------------------------------------------ bounds

\* The wall clock (Utc::now().timestamp()) at construction, and how far it
\* advances: the response latency now - requested_at ranges over 0..MaxTime-StartTime.
StartTime == 1
MaxTime == 2
\* rand::random::<u32>() draws the transaction id from 1..MaxXid.
MaxXid == 1
\* ApiSpec: how many calls may declare a `from` that is not the stored dhcp_state.
MaxMisdeclared == 1

\* ------------------------------------------------------------------ constants

BACKOFF_TIMEOUT_INITIAL == 4
BACKOFF_TIMEOUT_MAXIMUM == 64
FORTHON_TIMEOUT_MINIMAL == 60
\* f64 factors 0.5 and 0.875, as exact fractions <<numerator, denominator>>.
RENEWAL_TIME_FACTOR == <<1, 2>>
REBINDING_TIME_FACTOR == <<7, 8>>

\* ------------------------------------------------------------------ values

DhcpState ==
    {"Init", "Selecting", "SelectingSent", "Requesting", "RequestingSent",
     "InitReboot", "Rebooting", "RebootingSent", "Bound", "Renewing",
     "RenewingSent", "Rebinding", "RebindingSent"}

\* Option<T>: None is the empty tuple, Some(x) the one-element tuple.
None == <<>>
Some(x) == <<x>>
unwrap_or(option, default) == IF option = None THEN default ELSE option[1]

\* Ipv4Addr::new(0, 0, 0, 0)
Unspecified == "0.0.0.0"
Server1 == "10.0.0.1"

\* The parsed dhcp_protocol::Message fields that transcend reads.
Message(address, server, time, renewal, rebinding) ==
    [your_ip_address |-> address,
     options |-> [dhcp_server_id |-> server, address_time |-> time,
                  renewal_time |-> renewal, rebinding_time |-> rebinding]]

\* The responses the event loop hands to transcend: none, well-formed offers and
\* acknowledgements (lease 3600 s, lease 41 s, lease 41 s with T1 = 0 and T2 = 40
\* supplied), one without an address lease time, one without a server identifier.
Lease3600 == Message("10.0.0.5", Some(Server1), Some(3600), None, None)
Lease41 == Message("10.0.0.9", Some(Server1), Some(41), None, None)
LeaseT1Zero == Message("10.0.0.9", Some(Server1), Some(41), Some(0), Some(40))
NoAddressTime == Message("10.0.0.9", Some(Server1), None, None, None)
NoServerId == Message("10.0.0.5", None, Some(3600), None, None)
Messages == {Lease3600, Lease41, LeaseT1Zero, NoAddressTime, NoServerId}
Responses == {None} \cup {Some(m) : m \in Messages}

\* ------------------------------------------------------------------ integers

\* A u64 is held by its two's-complement representative: r >= 0 stands for r and
\* r < 0 for 2^64 + r. With every magnitude below 2^31 the representative of a
\* wrapping difference a - b is a - b, and `as u64` of an i64 keeps it.
AsU64(i) == i
U64Less(a, b) == IF (a < 0) = (b < 0) THEN a < b ELSE b < 0
U64Max(a, b) == IF U64Less(a, b) THEN b ELSE a
\* a - b on u64: the wrapped value, and whether the subtraction overflows (a
\* panic with overflow checks on, as in a debug build; a wrap without them).
WrappingSub(a, b) == a - b
SubOverflows(a, b) == U64Less(a, b)
\* Mutant of MulF64AsU32: the product is rounded to the nearest integer.
MulF64AsU32_rounded(x, factor) == (2 * x * factor[1] + factor[2]) \div (2 * factor[2])
\* ((x as f64) * factor) as u32: exact in f64 for these factors, then truncated.
MulF64AsU32(x, factor) == (x * factor[1]) \div factor[2]

\* ------------------------------------------------------------------ state

VARIABLES
    dhcp_state, is_broadcast, transaction_id, offered_address, offered_time,
    dhcp_server_id, assigned_address, requested_at, renewal_after,
    rebinding_after, expiration_after, timer_offer, timer_ack, timer_renewal,
    timer_rebinding, timer_expiration,
    now,          \* the clock: Utc::now().timestamp() and Instant::now()
    panicked,     \* a panic! has unwound out of transcend
    misdeclared   \* calls so far whose `from` was not the stored dhcp_state

fields ==
    <<dhcp_state, is_broadcast, transaction_id, offered_address, offered_time,
      dhcp_server_id, assigned_address, requested_at, renewal_after,
      rebinding_after, expiration_after, timer_offer, timer_ack, timer_renewal,
      timer_rebinding, timer_expiration>>
vars == <<fields, now, panicked, misdeclared>>

\* The State struct as a record, with the panic flag carried along so that a
\* panic in the middle of a handler keeps the assignments made before it.
Self ==
    [dhcp_state |-> dhcp_state, is_broadcast |-> is_broadcast,
     transaction_id |-> transaction_id, offered_address |-> offered_address,
     offered_time |-> offered_time, dhcp_server_id |-> dhcp_server_id,
     assigned_address |-> assigned_address, requested_at |-> requested_at,
     renewal_after |-> renewal_after, rebinding_after |-> rebinding_after,
     expiration_after |-> expiration_after, timer_offer |-> timer_offer,
     timer_ack |-> timer_ack, timer_renewal |-> timer_renewal,
     timer_rebinding |-> timer_rebinding, timer_expiration |-> timer_expiration,
     panicked |-> panicked]

Become(s) ==
    /\ dhcp_state' = s.dhcp_state
    /\ is_broadcast' = s.is_broadcast
    /\ transaction_id' = s.transaction_id
    /\ offered_address' = s.offered_address
    /\ offered_time' = s.offered_time
    /\ dhcp_server_id' = s.dhcp_server_id
    /\ assigned_address' = s.assigned_address
    /\ requested_at' = s.requested_at
    /\ renewal_after' = s.renewal_after
    /\ rebinding_after' = s.rebinding_after
    /\ expiration_after' = s.expiration_after
    /\ timer_offer' = s.timer_offer
    /\ timer_ack' = s.timer_ack
    /\ timer_renewal' = s.timer_renewal
    /\ timer_rebinding' = s.timer_rebinding
    /\ timer_expiration' = s.timer_expiration
    /\ panicked' = s.panicked

\* State::new(dhcp_state, server_address, is_broadcast, with the drawn xid)
new(state, server_address, broadcast, xid) ==
    /\ dhcp_state = state
    /\ is_broadcast = broadcast
    /\ transaction_id = xid
    /\ offered_address = Unspecified
    /\ offered_time = 0
    /\ dhcp_server_id = server_address
    /\ assigned_address = Unspecified
    /\ requested_at = 0
    /\ renewal_after = 0
    /\ rebinding_after = 0
    /\ expiration_after = 0
    /\ timer_offer = None
    /\ timer_ack = None
    /\ timer_renewal = None
    /\ timer_rebinding = None
    /\ timer_expiration = None

\* ------------------------------------------------------------------ timers

\* Backoff::new(initial, maximum): armed with the initial interval.
Backoff_new(initial, maximum) == [interval |-> initial, maximum |-> maximum]
\* A restart of a Backoff that has fired: the interval doubles up to the maximum.
Backoff_restart(timer) ==
    [timer EXCEPT !.interval =
        IF 2 * timer.interval > timer.maximum THEN timer.maximum ELSE 2 * timer.interval]
\* Forthon::new(duration, minimal), and the delay after which it fires.
Forthon_new(duration, minimal) == [duration |-> duration, minimal |-> minimal]
Forthon_delay(timer) == U64Max(timer.duration, timer.minimal)
\* Instant::now() + Duration::from_secs(secs) panics when the sum leaves the
\* range of the clock's signed seconds: for every secs of 2^63 or more.
InstantAddOverflows(secs) == secs < 0

\* ------------------------------------------------------------------ helpers

\* panic_state!(from, to) and a failed expect!(..): the panic leaves the struct
\* as the handler has made it so far.
panic(s) == [s EXCEPT !.panicked = TRUE]

set_offered_address(s, value) == [s EXCEPT !.offered_address = value]
set_offered_time(s, value) == [s EXCEPT !.offered_time = value]
set_dhcp_server_id(s, value) == [s EXCEPT !.dhcp_server_id = value]
set_assigned_address(s, value) == [s EXCEPT !.assigned_address = value]
record_request_time(s) == [s EXCEPT !.requested_at = now]

run_timer_offer(s) ==
    [s EXCEPT !.timer_offer =
        Some(Backoff_new(BACKOFF_TIMEOUT_INITIAL, BACKOFF_TIMEOUT_MAXIMUM))]
run_timer_ack(s) ==
    [s EXCEPT !.timer_ack =
        Some(Backoff_new(BACKOFF_TIMEOUT_INITIAL, BACKOFF_TIMEOUT_MAXIMUM))]
\* Delay::new(Instant::now() + Duration::from_secs(self.renewal_after))
run_timer_renewal(s) ==
    IF InstantAddOverflows(s.renewal_after)
    THEN panic(s)
    ELSE [s EXCEPT !.timer_renewal = Some([deadline |-> now + s.renewal_after])]
\* Mutant of run_timer_rebinding: the timer gets the backoff minimum as its floor.
run_timer_rebinding_low_floor(s) ==
    [s EXCEPT !.timer_rebinding =
        Some(Forthon_new(s.rebinding_after, BACKOFF_TIMEOUT_INITIAL))]
run_timer_rebinding(s) ==
    [s EXCEPT !.timer_rebinding =
        Some(Forthon_new(s.rebinding_after, FORTHON_TIMEOUT_MINIMAL))]
run_timer_expiration(s) ==
    [s EXCEPT !.timer_expiration =
        Some(Forthon_new(s.expiration_after, FORTHON_TIMEOUT_MINIMAL))]

\* Mutant of set_times: the latency is added to the renewal time.
set_times_adds_latency(s, renewal_time, rebinding_time, expiration_time, overflow_checks) ==
    LET renewal == unwrap_or(renewal_time, MulF64AsU32(expiration_time, RENEWAL_TIME_FACTOR))
        rebinding == unwrap_or(rebinding_time, MulF64AsU32(expiration_time, REBINDING_TIME_FACTOR))
        after1 == AsU64(renewal + (now - s.requested_at))
        s1 == [s EXCEPT !.renewal_after = after1]
        after2 == WrappingSub(rebinding, after1)
        s2 == [s1 EXCEPT !.rebinding_after = after2]
        rest == WrappingSub(expiration_time, after1)
        after3 == WrappingSub(rest, after2)
    IN  IF overflow_checks /\ SubOverflows(rebinding, after1) THEN panic(s1)
        ELSE IF overflow_checks
                /\ (SubOverflows(expiration_time, after1) \/ SubOverflows(rest, after2))
        THEN panic(s2)
        ELSE [s2 EXCEPT !.expiration_after = after3]

\* set_times: the three intervals from the (supplied or defaulted) times and
\* the latency now - requested_at. Each u64 subtraction that overflows panics
\* when overflow_checks is on, after the assignments that precede it.
set_times(s, renewal_time, rebinding_time, expiration_time, overflow_checks) ==
    LET renewal == unwrap_or(renewal_time, MulF64AsU32(expiration_time, RENEWAL_TIME_FACTOR))
        rebinding == unwrap_or(rebinding_time, MulF64AsU32(expiration_time, REBINDING_TIME_FACTOR))
        after1 == AsU64(renewal - (now - s.requested_at))
        s1 == [s EXCEPT !.renewal_after = after1]
        after2 == WrappingSub(rebinding, after1)
        s2 == [s1 EXCEPT !.rebinding_after = after2]
        rest == WrappingSub(expiration_time, after1)
        after3 == WrappingSub(rest, after2)
    IN  IF overflow_checks /\ SubOverflows(rebinding, after1) THEN panic(s1)
        ELSE IF overflow_checks
                /\ (SubOverflows(expiration_time, after1) \/ SubOverflows(rest, after2))
        THEN panic(s2)
        ELSE [s2 EXCEPT !.expiration_after = after3]

\* ------------------------------------------------------------------ transcend

\* The `next @ Bound` arms: the acknowledgement is recorded, the intervals are
\* derived and the renewal timer is armed. Only the RequestingSent arm leaves
\* dhcp_server_id alone (learn_server_id = FALSE).
into_Bound(s, response, learn_server_id, overflow_checks) ==
    IF response = None THEN panic(s)
    ELSE
    LET ack == response[1]
        s1 == set_assigned_address(s, ack.your_ip_address)
        s2 == IF learn_server_id
              THEN set_dhcp_server_id(s1, ack.options.dhcp_server_id)
              ELSE s1
    IN  IF learn_server_id /\ ack.options.dhcp_server_id = None THEN panic(s1)
        ELSE IF ack.options.address_time = None THEN panic(s2)
        ELSE
        LET s3 == set_times(s2, ack.options.renewal_time, ack.options.rebinding_time,
                            ack.options.address_time[1], overflow_checks)
            s4 == run_timer_renewal(s3)
        IN  IF s3.panicked THEN s3
            ELSE IF s4.panicked THEN s4
            ELSE [s4 EXCEPT !.dhcp_state = "Bound"]

\* Mutant of from_Bound: the rebinding timer is not armed.
from_Bound_unarmed(s, to) ==
    IF to = "Renewing" THEN [s EXCEPT !.dhcp_state = to] ELSE panic(s)

\* Mutant of from_SelectingSent: the retry arms a fresh offer-wait timer.
from_SelectingSent_rearm(s, to, response) ==
    IF to = "Selecting" THEN [run_timer_offer(s) EXCEPT !.dhcp_state = to]
    ELSE IF to = "Requesting" THEN
        IF response = None THEN panic(s)
        ELSE
        LET offer == response[1]
            s1 == set_dhcp_server_id(s, offer.options.dhcp_server_id)
            s2 == set_offered_address(s1, offer.your_ip_address)
        IN  IF offer.options.dhcp_server_id = None THEN panic(s)
            ELSE IF offer.options.address_time = None THEN panic(s2)
            ELSE [run_timer_ack(set_offered_time(s2, offer.options.address_time[1]))
                    EXCEPT !.dhcp_state = to]
    ELSE panic(s)

from_Init(s, to) ==
    IF to = "Selecting"
    THEN [run_timer_offer(set_dhcp_server_id(s, None)) EXCEPT !.dhcp_state = to]
    ELSE panic(s)

from_Selecting(s, to) ==
    IF to = "SelectingSent" THEN [s EXCEPT !.dhcp_state = to] ELSE panic(s)

\* Mutant of from_SelectingSent: an offer without a server identifier is
\* selected, and None is recorded as the server id.
from_SelectingSent_optional_id(s, to, response) ==
    IF to = "Selecting" THEN [s EXCEPT !.dhcp_state = to]
    ELSE IF to = "Requesting" THEN
        IF response = None THEN panic(s)
        ELSE
        LET offer == response[1]
            s1 == set_dhcp_server_id(s, offer.options.dhcp_server_id)
            s2 == set_offered_address(s1, offer.your_ip_address)
        IN  IF offer.options.address_time = None THEN panic(s2)
            ELSE [run_timer_ack(set_offered_time(s2, offer.options.address_time[1]))
                    EXCEPT !.dhcp_state = to]
    ELSE panic(s)

from_SelectingSent(s, to, response) ==
    IF to = "Selecting" THEN [s EXCEPT !.dhcp_state = to]
    ELSE IF to = "Requesting" THEN
        IF response = None THEN panic(s)
        ELSE
        LET offer == response[1]
            s1 == set_dhcp_server_id(s, offer.options.dhcp_server_id)
            s2 == set_offered_address(s1, offer.your_ip_address)
        IN  IF offer.options.dhcp_server_id = None THEN panic(s)
            ELSE IF offer.options.address_time = None THEN panic(s2)
            ELSE [run_timer_ack(set_offered_time(s2, offer.options.address_time[1]))
                    EXCEPT !.dhcp_state = to]
    ELSE panic(s)

\* Mutant of from_Requesting: the offer selection may be triggered again while
\* the request is pending, and re-arms the ack-wait timer.
from_Requesting_retrigger(s, to) ==
    IF to = "RequestingSent"
    THEN [record_request_time(s) EXCEPT !.dhcp_state = to]
    ELSE IF to = "Requesting" THEN record_request_time(run_timer_ack(s))
    ELSE panic(s)

from_Requesting(s, to) ==
    IF to = "RequestingSent"
    THEN [record_request_time(s) EXCEPT !.dhcp_state = to]
    ELSE panic(s)

from_RequestingSent(s, to, response, overflow_checks) ==
    IF to = "Init" THEN [s EXCEPT !.dhcp_state = to]
    ELSE IF to = "Requesting" THEN [s EXCEPT !.dhcp_state = to]
    ELSE IF to = "Bound" THEN into_Bound(s, response, FALSE, overflow_checks)
    ELSE panic(s)

from_InitReboot(s, to) ==
    IF to = "Rebooting" THEN [run_timer_ack(s) EXCEPT !.dhcp_state = to] ELSE panic(s)

from_Rebooting(s, to) ==
    IF to = "RebootingSent"
    THEN [record_request_time(s) EXCEPT !.dhcp_state = to]
    ELSE panic(s)

from_RebootingSent(s, to, response, overflow_checks) ==
    IF to = "Init" THEN [s EXCEPT !.dhcp_state = to]
    ELSE IF to = "Rebooting" THEN [s EXCEPT !.dhcp_state = to]
    ELSE IF to = "Bound" THEN into_Bound(s, response, TRUE, overflow_checks)
    ELSE panic(s)

from_Bound(s, to) ==
    IF to = "Renewing" THEN [run_timer_rebinding(s) EXCEPT !.dhcp_state = to] ELSE panic(s)

from_Renewing(s, to) ==
    IF to = "RenewingSent"
    THEN [record_request_time(s) EXCEPT !.dhcp_state = to]
    ELSE panic(s)

\* Mutant of from_RenewingSent: the move to REBINDING keeps the server id.
from_RenewingSent_keeps_server(s, to, response, overflow_checks) ==
    IF to = "Bound" THEN into_Bound(s, response, TRUE, overflow_checks)
    ELSE IF to = "Renewing" THEN [s EXCEPT !.dhcp_state = to]
    ELSE IF to = "Rebinding"
    THEN [run_timer_expiration(s) EXCEPT !.dhcp_state = to]
    ELSE panic(s)

from_RenewingSent(s, to, response, overflow_checks) ==
    IF to = "Bound" THEN into_Bound(s, response, TRUE, overflow_checks)
    ELSE IF to = "Renewing" THEN [s EXCEPT !.dhcp_state = to]
    ELSE IF to = "Rebinding"
    THEN [run_timer_expiration(set_dhcp_server_id(s, None)) EXCEPT !.dhcp_state = to]
    ELSE panic(s)

from_Rebinding(s, to) ==
    IF to = "RebindingSent"
    THEN [record_request_time(s) EXCEPT !.dhcp_state = to]
    ELSE panic(s)

\* Mutant of from_RebindingSent: the expiry of the lease is not handled.
from_RebindingSent_no_expiry(s, to, response, overflow_checks) ==
    IF to = "Bound" THEN into_Bound(s, response, TRUE, overflow_checks)
    ELSE IF to = "Rebinding" THEN [s EXCEPT !.dhcp_state = to]
    ELSE panic(s)

from_RebindingSent(s, to, response, overflow_checks) ==
    IF to = "Init" THEN [s EXCEPT !.dhcp_state = to]
    ELSE IF to = "Bound" THEN into_Bound(s, response, TRUE, overflow_checks)
    ELSE IF to = "Rebinding" THEN [s EXCEPT !.dhcp_state = to]
    ELSE panic(s)

\* State::transcend: the match is on the `from` argument, never on self.dhcp_state.
transcend(s, from, to, response, overflow_checks) ==
    CASE from = "Init" -> from_Init(s, to)
      [] from = "Selecting" -> from_Selecting(s, to)
      [] from = "SelectingSent" -> from_SelectingSent(s, to, response)
      [] from = "Requesting" -> from_Requesting(s, to)
      [] from = "RequestingSent" -> from_RequestingSent(s, to, response, overflow_checks)
      [] from = "InitReboot" -> from_InitReboot(s, to)
      [] from = "Rebooting" -> from_Rebooting(s, to)
      [] from = "RebootingSent" -> from_RebootingSent(s, to, response, overflow_checks)
      [] from = "Bound" -> from_Bound(s, to)
      [] from = "Renewing" -> from_Renewing(s, to)
      [] from = "RenewingSent" -> from_RenewingSent(s, to, response, overflow_checks)
      [] from = "Rebinding" -> from_Rebinding(s, to)
      [] from = "RebindingSent" -> from_RebindingSent(s, to, response, overflow_checks)

\* ------------------------------------------------------------------ actions

Init ==
    /\ \E state \in {"Init", "InitReboot"}, server_address \in {None, Some(Server1)},
          broadcast \in BOOLEAN, xid \in 1..MaxXid :
            new(state, server_address, broadcast, xid)
    /\ now = StartTime
    /\ panicked = FALSE
    /\ misdeclared = 0

\* The arms that read `response`, and with it reach set_times: for every other
\* pair transcend gives one result whatever the response and the build.
ReadsResponse(from, to) ==
    \/ from = "SelectingSent" /\ to = "Requesting"
    \/ from \in {"RequestingSent", "RebootingSent", "RenewingSent", "RebindingSent"}
         /\ to = "Bound"
ResponsesTo(from, to) == IF ReadsResponse(from, to) THEN Responses ELSE {None}
BuildsTo(from, to) == IF ReadsResponse(from, to) THEN BOOLEAN ELSE {FALSE}

\* One call of transcend; nothing runs after a panic.
Transcend(from, to) ==
    /\ ~panicked
    /\ \E response \in ResponsesTo(from, to), overflow_checks \in BuildsTo(from, to) :
            Become(transcend(Self, from, to, response, overflow_checks))
    /\ UNCHANGED now

\* The event loop's call: it declares the state it read from dhcp_state().
Step ==
    /\ \E to \in DhcpState : Transcend(dhcp_state, to)
    /\ UNCHANGED misdeclared

\* Any call of the public method: `from` is whatever the caller declares.
Call ==
    \E from \in DhcpState, to \in DhcpState :
        /\ from # dhcp_state => misdeclared < MaxMisdeclared
        /\ Transcend(from, to)
        /\ misdeclared' = IF from # dhcp_state THEN misdeclared + 1 ELSE misdeclared

\* A second of wall-clock time passes.
Tick ==
    /\ ~panicked
    /\ now < MaxTime
    /\ now' = now + 1
    /\ UNCHANGED <<fields, panicked, misdeclared>>

\* The offer-wait timer fires while the discover is out and is restarted.
OfferTimeout ==
    /\ ~panicked
    /\ dhcp_state = "SelectingSent"
    /\ timer_offer # None
    /\ timer_offer' = Some(Backoff_restart(timer_offer[1]))
    /\ UNCHANGED <<dhcp_state, is_broadcast, transaction_id, offered_address,
                   offered_time, dhcp_server_id, assigned_address, requested_at,
                   renewal_after, rebinding_after, expiration_after, timer_ack,
                   timer_renewal, timer_rebinding, timer_expiration, now, panicked,
                   misdeclared>>

\* The ack-wait timer fires while the request is out and is restarted.
AckTimeout ==
    /\ ~panicked
    /\ dhcp_state \in {"RequestingSent", "RebootingSent"}
    /\ timer_ack # None
    /\ timer_ack' = Some(Backoff_restart(timer_ack[1]))
    /\ UNCHANGED <<dhcp_state, is_broadcast, transaction_id, offered_address,
                   offered_time, dhcp_server_id, assigned_address, requested_at,
                   renewal_after, rebinding_after, expiration_after, timer_offer,
                   timer_renewal, timer_rebinding, timer_expiration, now, panicked,
                   misdeclared>>

Next == Step \/ Tick \/ OfferTimeout \/ AckTimeout
Spec == Init /\ [][Next]_vars

ApiNext == Call \/ Tick \/ OfferTimeout \/ AckTimeout
ApiSpec == Init /\ [][ApiNext]_vars

\* ------------------------------------------------------------------ claims

\* The transitions of the lease state machine, with the `Sent` substates.
LegalEdges ==
    {<<"Init", "Selecting">>, <<"Selecting", "SelectingSent">>,
     <<"SelectingSent", "Selecting">>, <<"SelectingSent", "Requesting">>,
     <<"Requesting", "RequestingSent">>, <<"RequestingSent", "Init">>,
     <<"RequestingSent", "Requesting">>, <<"RequestingSent", "Bound">>,
     <<"InitReboot", "Rebooting">>, <<"Rebooting", "RebootingSent">>,
     <<"RebootingSent", "Init">>, <<"RebootingSent", "Rebooting">>,
     <<"RebootingSent", "Bound">>, <<"Bound", "Renewing">>,
     <<"Renewing", "RenewingSent">>, <<"RenewingSent", "Bound">>,
     <<"RenewingSent", "Renewing">>, <<"RenewingSent", "Rebinding">>,
     <<"Rebinding", "RebindingSent">>, <<"RebindingSent", "Init">>,
     <<"RebindingSent", "Bound">>, <<"RebindingSent", "Rebinding">>}

\* The step takes the client from stored state a to stored state b.
Edge(a, b) == dhcp_state = a /\ dhcp_state' = b

\* The Lease State fields and the deadline timers (the backoff timers are
\* restarted by their own timeouts).
lease ==
    <<is_broadcast, transaction_id, offered_address, offered_time, dhcp_server_id,
      assigned_address, requested_at, renewal_after, rebinding_after,
      expiration_after, timer_renewal, timer_rebinding, timer_expiration>>

C1_step ==
    /\ dhcp_state' # dhcp_state => <<dhcp_state, dhcp_state'>> \in LegalEdges
    /\ (dhcp_state' = dhcp_state /\ ~panicked') => lease' = lease
\* C1: every change of the stored dhcp_state is a legal edge out of the stored
\* state, and a step that is neither a state change nor fatal changes no Lease
\* State field and no deadline timer: a call whose declared `from` is not the
\* stored state is never applied.
C1_OnlyLegalEdges == [][C1_step]_vars

\* The request-pending substates and the `Sent` substate each moves to.
Pending == {"Selecting", "Requesting", "Rebooting", "Renewing", "Rebinding"}
SentOf(state) ==
    CASE state = "Selecting" -> "SelectingSent"
      [] state = "Requesting" -> "RequestingSent"
      [] state = "Rebooting" -> "RebootingSent"
      [] state = "Renewing" -> "RenewingSent"
      [] state = "Rebinding" -> "RebindingSent"

C2_step ==
    dhcp_state \in Pending =>
        \/ dhcp_state' = SentOf(dhcp_state) /\ ~panicked'
        \/ fields' = fields
\* C2: while a request is pending the only step that changes anything is the
\* move to the matching `Sent` substate; every other attempt is rejected (a
\* panic) or a no-op, and leaves every field and timer as it was.
C2_RequestPendingGuard == [][C2_step]_vars

\* C2 witness: a second trigger was rejected while the request was pending.
C2_Rejected == panicked /\ dhcp_state = "Requesting" /\ timer_ack # None

\* The step is transcend(from, "Bound", Some(message)) ending in BOUND.
Acknowledged(from, message) ==
    /\ dhcp_state = from
    /\ dhcp_state' = "Bound"
    /\ ~panicked'
    /\ \E overflow_checks \in BOOLEAN :
            Self' = transcend(Self, from, "Bound", Some(message), overflow_checks)

C3_step ==
    (/\ Acknowledged("RequestingSent", Lease3600)
     /\ offered_address = "10.0.0.5"
     /\ offered_time = 3600
     /\ now - requested_at = 1)
    => (/\ assigned_address' = "10.0.0.5"
        /\ renewal_after' = 1799
        /\ rebinding_after' = 1350
        /\ expiration_after' = 450)
\* C3: the acknowledgement of the offered 10.0.0.5 with lease 3600 s and no
\* T1/T2, processed 1 s after the request was sent, ends in BOUND with
\* assigned_address 10.0.0.5 and intervals 1799, 1350 and 450.
C3_Acquisition == [][C3_step]_vars

\* Acknowledgements that leave T1 and T2 to the defaults.
Defaulted ==
    {m \in Messages : /\ m.options.address_time # None
                      /\ m.options.renewal_time = None
                      /\ m.options.rebinding_time = None}
SentStates == {"RequestingSent", "RebootingSent", "RenewingSent", "RebindingSent"}

C4_exact_step ==
    \A from \in SentStates, m \in Defaulted :
        (Acknowledged(from, m) /\ now = requested_at) =>
            LET E == m.options.address_time[1]
            IN  /\ 2 * renewal_after' = E
                /\ 8 * rebinding_after' = 3 * E
                /\ 8 * expiration_after' = E
                /\ renewal_after' + rebinding_after' + expiration_after' = E
\* C4 as stated: with defaults and no latency the intervals are exactly 0.5 E,
\* 0.375 E and 0.125 E and sum to E, for every lease duration E.
C4_ExactFractions == [][C4_exact_step]_vars

C4_truncated_step ==
    \A from \in SentStates, m \in Defaulted :
        (Acknowledged(from, m) /\ now = requested_at) =>
            LET E == m.options.address_time[1]
            IN  /\ renewal_after' = E \div 2
                /\ renewal_after' + rebinding_after' = (7 * E) \div 8
                /\ renewal_after' + rebinding_after' + expiration_after' = E
                /\ (E % 8 = 0) => (/\ 2 * renewal_after' = E
                                   /\ 8 * rebinding_after' = 3 * E
                                   /\ 8 * expiration_after' = E)
\* C4 amended: with defaults and no latency renewal_after is 0.5 E rounded down,
\* renewal_after + rebinding_after is 0.875 E rounded down, the three sum to
\* exactly E, and they are 0.5 E, 0.375 E, 0.125 E when 8 divides E.
C4_TruncatedFractions == [][C4_truncated_step]_vars

\* C4 witness: BOUND on a 41 s lease with defaults and no latency.
C4_Bound41 ==
    /\ dhcp_state = "Bound"
    /\ ~panicked
    /\ renewal_after = 20
    /\ rebinding_after = 15
    /\ expiration_after = 6

C5_step ==
    \A from \in SentStates, m \in Messages :
        (Acknowledged(from, m) /\ m.options.address_time # None) =>
            renewal_after' + rebinding_after' + expiration_after'
                = m.options.address_time[1] - (now - requested_at)
\* C5: after every acknowledgement the three intervals sum to the granted
\* lease duration minus the latency now - requested_at.
C5_SumNetOfLatency == [][C5_step]_vars

\* The intervals of section 4.2 for message m at the latency of this step.
Derived(m) ==
    LET E == m.options.address_time[1]
        T1 == IF m.options.renewal_time = None THEN E \div 2
              ELSE m.options.renewal_time[1]
        T2 == IF m.options.rebinding_time = None THEN (7 * E) \div 8
              ELSE m.options.rebinding_time[1]
        first == T1 - (now - requested_at)
    IN  <<first, T2 - first, E - first - (T2 - first)>>

C6_step ==
    /\ Edge("Bound", "Renewing") =>
        /\ "Renewing" \in Pending
        /\ ~panicked'
        /\ timer_rebinding' = Some([duration |-> rebinding_after, minimal |-> 60])
        /\ <<renewal_after', rebinding_after', expiration_after'>>
                = <<renewal_after, rebinding_after, expiration_after>>
    /\ Edge("RenewingSent", "Bound") =>
        /\ "Bound" \notin Pending
        /\ ~panicked'
        /\ timer_renewal' = Some([deadline |-> now + renewal_after'])
        /\ \E m \in Messages :
            /\ m.options.address_time # None
            /\ assigned_address' = m.your_ip_address
            /\ <<renewal_after', rebinding_after', expiration_after'>> = Derived(m)
\* C6: when T1 fires in BOUND the client enters RENEWING (a request-pending
\* state) with the T2 timer armed on rebinding_after; when the acknowledgement
\* is then received it is in BOUND again (no request pending) with the
\* intervals re-derived from the acknowledgement and the T1 timer re-armed on
\* the new renewal_after; in every repetition of the cycle.
C6_RenewalCycle == [][C6_step]_vars

\* C6 witness: back in BOUND after a renewal that never reached REBINDING.
C6_Renewed ==
    /\ dhcp_state = "Bound"
    /\ ~panicked
    /\ timer_rebinding # None
    /\ timer_expiration = None
    /\ timer_renewal = Some([deadline |-> now + renewal_after])

C7_step ==
    (dhcp_state \in {"Rebinding", "RebindingSent"} /\ dhcp_state' = "Init")
    => (is_broadcast' = TRUE /\ dhcp_server_id' = None)
\* C7: when the lease expires in REBINDING the client ends in INIT with
\* is_broadcast true and dhcp_server_id cleared.
C7_LeaseLoss == [][C7_step]_vars

\* max(interval, 60) on u64 seconds.
Floored(interval) == IF 0 <= interval /\ interval < 60 THEN 60 ELSE interval

C8_step ==
    /\ (timer_rebinding' # timer_rebinding) =>
        /\ timer_rebinding' # None
        /\ Forthon_delay(timer_rebinding'[1]) = Floored(rebinding_after)
    /\ (timer_expiration' # timer_expiration) =>
        /\ timer_expiration' # None
        /\ Forthon_delay(timer_expiration'[1]) = Floored(expiration_after)
\* C8: whenever the T2 or the expiration timer is armed it fires after
\* max(rebinding_after, 60) resp. max(expiration_after, 60) seconds: 60 when the
\* interval is below 60, the interval itself otherwise.
C8_FloorGuard == [][C8_step]_vars

\* C8 witness: T2 armed on 15 s fires after 60 s, expiration armed on 450 s
\* fires after 450 s.
C8_BothSides ==
    /\ timer_rebinding # None
    /\ timer_rebinding[1].duration = 15
    /\ Forthon_delay(timer_rebinding[1]) = 60
    /\ timer_expiration # None
    /\ timer_expiration[1].duration = 450
    /\ Forthon_delay(timer_expiration[1]) = 450

\* A backoff timer just armed: 4 s, ceiling 64 s.
Fresh == Some([interval |-> 4, maximum |-> 64])
\* old -> new is a restart: the interval doubles, capped at 64.
Doubled(old, restarted) ==
    /\ old # None
    /\ restarted # None
    /\ restarted[1].maximum = 64
    /\ restarted[1].interval = IF 2 * old[1].interval > 64 THEN 64 ELSE 2 * old[1].interval
Paced(timer) == timer # None => timer[1].interval \in {4, 8, 16, 32, 64}

C9_step ==
    /\ Paced(timer_offer') /\ Paced(timer_ack')
    /\ Edge("Init", "Selecting") => timer_offer' = Fresh
    /\ Edge("SelectingSent", "Requesting") => timer_ack' = Fresh
    /\ Edge("InitReboot", "Rebooting") => timer_ack' = Fresh
    /\ Edge("SelectingSent", "Selecting") => timer_offer' = timer_offer
    /\ Edge("RequestingSent", "Requesting") => timer_ack' = timer_ack
    /\ Edge("RebootingSent", "Rebooting") => timer_ack' = timer_ack
    /\ (timer_offer' # timer_offer) =>
            (Edge("Init", "Selecting") \/ Doubled(timer_offer, timer_offer'))
    /\ (timer_ack' # timer_ack) =>
            \/ Edge("SelectingSent", "Requesting")
            \/ Edge("InitReboot", "Rebooting")
            \/ Doubled(timer_ack, timer_ack')
\* C9: the offer-wait and ack-wait timers wait 4, 8, 16, 32, 64, 64, ...
\* seconds: a fresh entry into the wait state arms the timer at 4 s with ceiling
\* 64 s, a retry within the wait state keeps the timer, and the only other
\* change of a timer is its restart at the doubled interval, capped at 64 s.
C9_BackoffPacing == [][C9_step]_vars

\* C9 witness: SELECTING again after retries that took the offer wait to 64 s.
C9_AtCeiling ==
    /\ dhcp_state = "Selecting"
    /\ ~panicked
    /\ timer_offer # None
    /\ timer_offer[1].interval = 64

C10_step ==
    IF Edge("Init", "Selecting")
    THEN transaction_id' # transaction_id
    ELSE transaction_id' = transaction_id
\* C10: the transaction id is regenerated on INIT -> SELECTING and left
\* unchanged by every other transition.
C10_XidPerAttempt == [][C10_step]_vars

\* C11: in every state in which the client is running in SELECTING or
\* REBINDING, in the pending or the `Sent` substate, dhcp_server_id is None.
C11_BroadcastOnly ==
    (~panicked /\ dhcp_state \in {"Selecting", "SelectingSent", "Rebinding", "RebindingSent"})
        => dhcp_server_id = None

\* C11 witness: REBINDING with the request just sent again, after the client
\* was bound to a server.
C11_RebindingRetry ==
    /\ dhcp_state = "Rebinding"
    /\ ~panicked
    /\ requested_at = now
    /\ timer_expiration # None
    /\ assigned_address # Unspecified
    /\ dhcp_server_id = None

\* A response that lacks a field the handler expects: the address lease time,
\* or the server identifier.
Incomplete ==
    {m \in Messages : m.options.address_time = None \/ m.options.dhcp_server_id = None}

C12_step ==
    \A m \in Incomplete, to \in {"Requesting", "Bound"}, overflow_checks \in BOOLEAN :
        (/\ ReadsResponse(dhcp_state, to)
         /\ panicked'
         /\ Self' = transcend(Self, dhcp_state, to, Some(m), overflow_checks))
        => fields' = fields
\* C12: when a transition is aborted because the offer or acknowledgement
\* lacks a mandatory field, no field and no timer has been modified.
C12_AbortLeavesState == [][C12_step]_vars

\* The next state on a shortest way to BOUND, and to INIT, along LegalEdges.
TowardBound ==
    [state \in DhcpState |->
        CASE state = "Init" -> "Selecting"
          [] state = "Selecting" -> "SelectingSent"
          [] state = "SelectingSent" -> "Requesting"
          [] state = "Requesting" -> "RequestingSent"
          [] state = "InitReboot" -> "Rebooting"
          [] state = "Rebooting" -> "RebootingSent"
          [] state = "Renewing" -> "RenewingSent"
          [] state = "Rebinding" -> "RebindingSent"
          [] OTHER -> "Bound"]
TowardInit ==
    [state \in DhcpState |->
        CASE state = "Selecting" -> "SelectingSent"
          [] state = "SelectingSent" -> "Requesting"
          [] state = "Requesting" -> "RequestingSent"
          [] state = "InitReboot" -> "Rebooting"
          [] state = "Rebooting" -> "RebootingSent"
          [] state = "Bound" -> "Renewing"
          [] state = "Renewing" -> "RenewingSent"
          [] state = "RenewingSent" -> "Rebinding"
          [] state = "Rebinding" -> "RebindingSent"
          [] OTHER -> "Init"]

\* transcend, called along `route` from s with a well-formed response, arrives
\* at `target` within `steps` calls, none of them a panic.
RECURSIVE Arrives(_, _, _, _)
Arrives(s, route, target, steps) ==
    IF s.panicked THEN FALSE
    ELSE IF s.dhcp_state = target THEN TRUE
    ELSE IF steps = 0 THEN FALSE
    ELSE Arrives(transcend(s, s.dhcp_state, route[s.dhcp_state], Some(Lease3600), TRUE),
                 route, target, steps - 1)

\* Some call of transcend is applied in the current state.
CanMove ==
    \E to \in DhcpState, response \in Responses :
        LET s == transcend(Self, dhcp_state, to, response, TRUE)
        IN  ~s.panicked /\ s.dhcp_state = to /\ <<dhcp_state, to>> \in LegalEdges

\* C13: in every state of the running client some legal transition is
\* applicable, and sequences of legal transitions lead from it to BOUND and to
\* INIT.
C13_NoTerminalState ==
    ~panicked =>
        /\ CanMove
        /\ Arrives(Self, TowardBound, "Bound", Cardinality(DhcpState))
        /\ Arrives(Self, TowardInit, "Init", Cardinality(DhcpState))

\* C13 witness: INIT again after a lease that was acquired and lost.
C13_BackInInit ==
    /\ dhcp_state = "Init"
    /\ ~panicked
    /\ timer_expiration # None
    /\ assigned_address # Unspecified

\* C14: only the timers of the current state are armed: the offer-wait timer
\* is absent outside SELECTING, and the ack-wait, T2 and expiration timers are
\* absent in BOUND.
C14_TimerDiscipline ==
    ~panicked =>
        /\ dhcp_state \notin {"Selecting", "SelectingSent"} => timer_offer = None
        /\ dhcp_state = "Bound" =>
            /\ timer_ack = None
            /\ timer_rebinding = None
            /\ timer_expiration = None

\* C15: in every BOUND state is_broadcast is false.
C15_BoundIsUnicast == (~panicked /\ dhcp_state = "Bound") => is_broadcast = FALSE

\* The result of the event loop delivering a timeout as transcend(.., to, None).
Timeout(to) == transcend(Self, dhcp_state, to, None, TRUE)

\* C16: in both substates of RENEWING the T2 timeout moves the client to
\* REBINDING, and in both substates of REBINDING the expiration timeout moves
\* it to INIT; neither is ever a panic.
C16_TimeoutsDeliverable ==
    ~panicked =>
        /\ dhcp_state \in {"Renewing", "RenewingSent"} =>
            (~Timeout("Rebinding").panicked /\ Timeout("Rebinding").dhcp_state = "Rebinding")
        /\ dhcp_state \in {"Rebinding", "RebindingSent"} =>
            (~Timeout("Init").panicked /\ Timeout("Init").dhcp_state = "Init")

\* The result of selecting, in the current state, an offer without a server
\* identifier.
Selected == transcend(Self, dhcp_state, "Requesting", Some(NoServerId), TRUE)

\* C17: in SELECTING with the discover sent, an offer without a server
\* identifier moves the client to REQUESTING with no server id recorded, the
\* offered address and lease time recorded and the ack-wait timer armed.
C17_OfferWithoutServerId ==
    (~panicked /\ dhcp_state = "SelectingSent") =>
        /\ ~Selected.panicked
        /\ Selected.dhcp_state = "Requesting"
        /\ Selected.dhcp_server_id = None
        /\ Selected.offered_address = NoServerId.your_ip_address
        /\ Selected.offered_time = NoServerId.options.address_time[1]
        /\ Selected.timer_ack
            = Some(Backoff_new(BACKOFF_TIMEOUT_INITIAL, BACKOFF_TIMEOUT_MAXIMUM))

C18_step ==
    \A from \in SentStates, m \in Messages :
        (Acknowledged(from, m) /\ m.options.address_time # None) =>
            (now - requested_at) + renewal_after'
                + Floored(rebinding_after') + Floored(expiration_after')
                    <= m.options.address_time[1]
\* C18: for every acknowledgement granting lease duration E, the latency plus
\* renewal_after plus the armed T2 and expiration durations (after the 60 s
\* floor) is at most E.
C18_LeaseDurationSafety == [][C18_step]_vars

\* The largest lease duration of the timing grid.
MaxLease == 4
\* The times an acknowledgement may supply on the grid.
GridTimes == {None} \cup {Some(t) : t \in 0..MaxLease}
\* elapsed <= renewal_time <= rebinding_time <= expiration_time, for the
\* supplied or defaulted times.
WellFormed(renewal_time, rebinding_time, expiration_time) ==
    LET renewal == unwrap_or(renewal_time, MulF64AsU32(expiration_time, RENEWAL_TIME_FACTOR))
        rebinding == unwrap_or(rebinding_time, MulF64AsU32(expiration_time, REBINDING_TIME_FACTOR))
    IN  /\ now - requested_at <= renewal
        /\ renewal <= rebinding
        /\ rebinding <= expiration_time
\* No subtraction wrapped or aborted, and the three intervals lie in 0..E.
InRange(s, expiration_time) ==
    /\ ~s.panicked
    /\ \A after \in {s.renewal_after, s.rebinding_after, s.expiration_after} :
            0 <= after /\ after <= expiration_time

\* C19: for every acknowledgement whose supplied or defaulted times satisfy
\* elapsed <= renewal_time <= rebinding_time <= expiration_time, set_times
\* subtracts nothing below zero in either build, and renewal_after,
\* rebinding_after and expiration_after lie between 0 and expiration_time.
C19_WellFormedNeverUnderflows ==
    (~panicked /\ dhcp_state \in SentStates) =>
        /\ \A renewal_time \in GridTimes, rebinding_time \in GridTimes,
              expiration_time \in 0..MaxLease, overflow_checks \in BOOLEAN :
                WellFormed(renewal_time, rebinding_time, expiration_time) =>
                    InRange(set_times(Self, renewal_time, rebinding_time,
                                      expiration_time, overflow_checks), expiration_time)
        /\ \A m \in Messages, overflow_checks \in BOOLEAN :
                (/\ m.options.address_time # None
                 /\ WellFormed(m.options.renewal_time, m.options.rebinding_time,
                               m.options.address_time[1])) =>
                    InRange(set_times(Self, m.options.renewal_time, m.options.rebinding_time,
                                      m.options.address_time[1], overflow_checks),
                            m.options.address_time[1])

\* C19 witness: a lease of 41 s with T1 = 0 and T2 = 40 acknowledged at latency
\* 0 is bound with the intervals 0, 40 and 1.
C19_BoundAtZeroLatency ==
    /\ dhcp_state = "Bound"
    /\ ~panicked
    /\ now = requested_at
    /\ renewal_after = 0
    /\ rebinding_after = 40
    /\ expiration_after = 1

\* C20: in BOUND, RENEWING and RENEWING_SENT the server id is known.
C20_KnownServerWhileRenewing ==
    dhcp_state \in {"Bound", "Renewing", "RenewingSent"} => dhcp_server_id # None

\* C20 witness: a session created in INIT without a server address is in
\* RENEWING_SENT with the server id learnt from the selected offer.
C20_RenewingAfterDiscovery ==
    /\ dhcp_state = "RenewingSent"
    /\ ~panicked
    /\ offered_address # Unspecified
    /\ dhcp_server_id = Some(Server1)
====
